---- MODULE Spec2Model ----
(***************************************************************************)
(* Model of the static-site generator in tools/build_site.py and           *)
(* tools/gen_index.py: the Page Renderer (build_posts_html), the Index     *)
(* Builder (build_index), the standalone index builder (gen_index) and the *)
(* title extraction (read_title_from_md).                                  *)
(*                                                                         *)
(* Strings are sequences of one-character strings, so that startswith,     *)
(* endswith, suffix, stem, strip, splitlines, sorted and html.escape are   *)
(* computed the way Python computes them.  A path is the sequence of its   *)
(* parts (pathlib's Path.parts); the file system is a function from paths  *)
(* to entries.                                                             *)
(***************************************************************************)
EXTENDS Integers, Sequences, FiniteSets, TLC

VARIABLES
    fs,        \* the file system below ROOT: path -> entry (directory or file)
    index,     \* ROOT/index.html (OUT_INDEX / OUT)
    pc,        \* position of main(): "idle", "render", "done", "aborted"
    queue,     \* what is left of sorted(POSTS_DIR.rglob("*.md")) in build_posts_html
    titles,    \* build_posts_html's titles dict: md_path -> title
    written,   \* the .html paths write_text has written in the current run
    scanned,   \* the directories whose entries the current run has enumerated
    walked,    \* the directories os.walk has yielded in the current run
    failed,    \* the md_path whose md_to_html / write_text raised, or <<>>
    clock,     \* dt.datetime.now(), in seconds
    changed,   \* TRUE once the tree was edited while a run was in progress
    doc,       \* argument of read_title_from_md: [text, stem]
    derived    \* result of read_title_from_md: [done, title]

vars == <<fs, index, pc, queue, titles, written, scanned, walked, failed,
          clock, changed, doc, derived>>

-----------------------------------------------------------------------------
(* Bounds of the model.                                                    *)

MaxEntries == 3
MaxClock == 1
MaxTextLen == 7

-----------------------------------------------------------------------------
(* Python str: code points, comparison, and the str methods the code uses. *)

Lower == <<"a","b","c","d","e","f","g","h","i","j","k","l","m",
           "n","o","p","q","r","s","t","u","v","w","x","y","z">>

\* ord(c) for the characters that occur in the model
CodePoint(c) ==
    CASE c = "\n" -> 10
      [] c = " "  -> 32
      [] c = "#"  -> 35
      [] c = "&"  -> 38
      [] c = "."  -> 46
      [] c = "/"  -> 47
      [] c = ";"  -> 59
      [] c = "_"  -> 95
      [] OTHER    -> 96 + (CHOOSE i \in 1..Len(Lower) : Lower[i] = c)

Min(a, b) == IF a <= b THEN a ELSE b

CharLess(c, d) == CodePoint(c) < CodePoint(d)

\* s < t for two str: the first differing character decides, a proper
\* prefix is less
StrLess(s, t) ==
    \/ \E i \in 1..Min(Len(s), Len(t)) :
          /\ \A j \in 1..(i - 1) : s[j] = t[j]
          /\ s[i] # t[i]
          /\ CharLess(s[i], t[i])
    \/ /\ Len(s) < Len(t)
       /\ \A j \in 1..Len(s) : s[j] = t[j]

StartsWith(s, p) == Len(s) >= Len(p) /\ SubSeq(s, 1, Len(p)) = p

EndsWith(s, p) == Len(s) >= Len(p) /\ SubSeq(s, Len(s) - Len(p) + 1, Len(s)) = p

\* str.isspace() of one character; \s of the re module
IsSpace(c) == c \in {" ", "\n"}

\* str.strip()
RECURSIVE LStrip(_)
LStrip(s) == IF s # <<>> /\ IsSpace(Head(s)) THEN LStrip(Tail(s)) ELSE s

RECURSIVE RStrip(_)
RStrip(s) ==
    IF s # <<>> /\ IsSpace(s[Len(s)]) THEN RStrip(SubSeq(s, 1, Len(s) - 1)) ELSE s

Strip(s) == RStrip(LStrip(s))

\* str.splitlines(): a line ends at each line break, no empty last line
\* ("\n" is the one line break of the modelled texts)
RECURSIVE SplitFrom(_, _, _)
SplitFrom(s, i, cur) ==
    IF i > Len(s) THEN (IF cur = <<>> THEN <<>> ELSE <<cur>>)
    ELSE IF s[i] = "\n" THEN <<cur>> \o SplitFrom(s, i + 1, <<>>)
    ELSE SplitFrom(s, i + 1, Append(cur, s[i]))

SplitLines(s) == SplitFrom(s, 1, <<>>)

\* html.escape(s, quote=True), character by character
EscChar(c) ==
    CASE c = "&"  -> <<"&", "a", "m", "p", ";">>
      [] c = "<"  -> <<"&", "l", "t", ";">>
      [] c = ">"  -> <<"&", "g", "t", ";">>
      [] c = "\"" -> <<"&", "q", "u", "o", "t", ";">>
      [] c = "'"  -> <<"&", "#", "x", "2", "7", ";">>
      [] OTHER    -> <<c>>

RECURSIVE esc(_)
esc(s) == IF s = <<>> THEN <<>> ELSE EscChar(Head(s)) \o esc(Tail(s))

-----------------------------------------------------------------------------
(* pathlib: names, suffix, stem, with_suffix, as_posix, ordering.          *)

\* str.rfind(".") - 1-based, 0 when there is no dot
RFindDot(name) ==
    LET D == {i \in 1..Len(name) : name[i] = "."}
    IN  IF D = {} THEN 0 ELSE CHOOSE i \in D : \A j \in D : j <= i

\* PurePath.suffix of a file name
Suffix(name) ==
    LET i == RFindDot(name)
    IN  IF 1 < i /\ i < Len(name) THEN SubSeq(name, i, Len(name)) ELSE <<>>

\* PurePath.stem of a file name
Stem(name) ==
    LET i == RFindDot(name)
    IN  IF 1 < i /\ i < Len(name) THEN SubSeq(name, 1, i - 1) ELSE name

Name(path) == path[Len(path)]

Parent(path) == SubSeq(path, 1, Len(path) - 1)

HTML_EXT == <<".", "h", "t", "m", "l">>

MD_EXT == <<".", "m", "d">>

\* md_path.with_suffix(".html")
WithSuffixHtml(path) == Append(Parent(path), Stem(Name(path)) \o HTML_EXT)

\* path.as_posix(): the parts joined by "/"
RECURSIVE AsPosix(_)
AsPosix(path) ==
    IF Len(path) = 1 THEN path[1]
    ELSE AsPosix(Parent(path)) \o <<"/">> \o Name(path)

\* Path.__lt__: the parts compared as a list of str
PathLess(p, q) ==
    \/ \E i \in 1..Min(Len(p), Len(q)) :
          /\ \A j \in 1..(i - 1) : p[j] = q[j]
          /\ p[i] # q[i]
          /\ StrLess(p[i], q[i])
    \/ /\ Len(p) < Len(q)
       /\ \A j \in 1..Len(p) : p[j] = q[j]

\* sorted(filenames): a list of distinct str in ascending order
RECURSIVE SortedNames(_)
SortedNames(S) ==
    IF S = {} THEN <<>>
    ELSE LET m == CHOOSE x \in S : \A y \in S \ {x} : StrLess(x, y)
         IN  <<m>> \o SortedNames(S \ {m})

\* sorted(paths): a list of distinct Path in ascending order
RECURSIVE SortedPaths(_)
SortedPaths(S) ==
    IF S = {} THEN <<>>
    ELSE LET m == CHOOSE x \in S : \A y \in S \ {x} : PathLess(x, y)
         IN  <<m>> \o SortedPaths(S \ {m})

\* POSTS_DIR = ROOT / "posts", parts ("posts",)
POSTS_DIR == << <<"p", "o", "s", "t", "s">> >>

-----------------------------------------------------------------------------
(* build_site.py: title extraction.                                        *)

\* The ways  ^\s*#\s+(.+)\s*$  matches a line: <<a, b, c>> are the lengths
\* matched by the leading \s*, by \s+ and by the group (.+); the rest of
\* the line is the trailing \s*
MatchSplits(line) ==
    {m \in (0..Len(line)) \X (1..Len(line)) \X (1..Len(line)) :
        /\ m[1] + 1 + m[2] + m[3] <= Len(line)
        /\ \A i \in 1..m[1] : IsSpace(line[i])
        /\ line[m[1] + 1] = "#"
        /\ \A i \in (m[1] + 2)..(m[1] + 1 + m[2]) : IsSpace(line[i])
        /\ \A i \in (m[1] + 2 + m[2])..(m[1] + 1 + m[2] + m[3]) : line[i] # "\n"
        /\ \A i \in (m[1] + 2 + m[2] + m[3])..Len(line) : IsSpace(line[i])}

\* the match the backtracking matcher finds first: every quantifier of the
\* pattern is greedy, so the leftmost quantifier takes the most it can
TitleMatch(line) ==
    LET M == MatchSplits(line)
    IN  CHOOSE m \in M : \A k \in M :
            \/ m[1] > k[1]
            \/ m[1] = k[1] /\ m[2] > k[2]
            \/ m[1] = k[1] /\ m[2] = k[2] /\ m[3] >= k[3]

\* m.group(1)
TitleGroup(line) ==
    LET m == TitleMatch(line)
    IN  SubSeq(line, m[1] + 2 + m[2], m[1] + 1 + m[2] + m[3])

\* TitleOfLines with a loop that does not return at the first match
RECURSIVE TitleOfLinesLast(_, _)
TitleOfLinesLast(lines, fallback) ==
    IF lines = <<>> THEN fallback
    ELSE IF MatchSplits(lines[Len(lines)]) # {} THEN Strip(TitleGroup(lines[Len(lines)]))
    ELSE TitleOfLinesLast(SubSeq(lines, 1, Len(lines) - 1), fallback)

RECURSIVE TitleOfLines(_, _)
TitleOfLines(lines, fallback) ==
    IF lines = <<>> THEN fallback
    ELSE IF MatchSplits(Head(lines)) # {} THEN Strip(TitleGroup(Head(lines)))
    ELSE TitleOfLines(Tail(lines), fallback)

read_title_from_md(md_text, fallback) == TitleOfLines(SplitLines(md_text), fallback)

-----------------------------------------------------------------------------
(* The file system.                                                        *)

NoFiles == [p \in {} |-> 0]

DirEntry ==
    [kind |-> "dir", fmt |-> "", title |-> <<>>, hint |-> <<>>, body |-> <<>>, stamp |-> 0]

\* a file as an editor left it
RawFile(text) ==
    [kind |-> "file", fmt |-> "raw", title |-> <<>>, hint |-> <<>>, body |-> text, stamp |-> 0]

\* PostsExists without the test
PostsAssumed(f) == TRUE

PostsExists(f) == POSTS_DIR \in DOMAIN f

IsDir(f, p) == p \in DOMAIN f /\ f[p].kind = "dir"

Dirs(f) == {p \in DOMAIN f : f[p].kind = "dir"}

Children(f, d) == {p \in DOMAIN f : Len(p) = Len(d) + 1 /\ Parent(p) = d}

\* names of the directories and files of the modelled trees
N_a == <<"a">>

N_b == <<"b">>

N_tools == <<"t", "o", "o", "l", "s">>

N_assets == <<"a", "s", "s", "e", "t", "s">>

N_git == <<".", "g", "i", "t">>

N_github == <<".", "g", "i", "t", "h", "u", "b">>

N_pycache == <<"_", "_", "p", "y", "c", "a", "c", "h", "e", "_", "_">>

N_hidden == <<".", "x">>

N_n_md == <<"n", ".", "m", "d">>

N_m_md == <<"m", ".", "m", "d">>

N_h_md == <<".", "h", ".", "m", "d">>

N_n_html == <<"n", ".", "h", "t", "m", "l">>

DirNames == {N_a, N_b, N_tools, N_pycache, N_hidden, N_n_md, N_n_html}

FileNames == {N_n_md, N_m_md, N_h_md, N_n_html}

T_heading == <<"#", " ", "t", "&", "\n", "x">>

T_plain == <<"x">>

Texts(name) ==
    IF EndsWith(name, MD_EXT) /\ ~StartsWith(name, <<".">>)
    THEN {T_heading, T_plain} ELSE {T_plain}

NoIndex == [exists |-> FALSE, notfound |-> FALSE, lines |-> <<>>, by |-> ""]

NoDoc == [text |-> <<>>, stem |-> <<"n">>]

NoTitle == [done |-> FALSE, title |-> <<>>]

InitRest ==
    /\ fs = NoFiles
    /\ index = NoIndex
    /\ pc = "idle"
    /\ queue = <<>>
    /\ titles = NoFiles
    /\ written = {}
    /\ scanned = {}
    /\ walked = {}
    /\ failed = <<>>
    /\ clock = 0
    /\ changed = FALSE
    /\ derived = NoTitle

Init == InitRest /\ doc = NoDoc

\* the author's edits, made before either generator has run
Editable == pc = "idle" /\ ~index.exists

MkPosts ==
    /\ Editable
    /\ ~PostsExists(fs)
    /\ fs' = (POSTS_DIR :> DirEntry)
    /\ UNCHANGED <<index, pc, queue, titles, written, scanned, walked, failed,
                   clock, changed, doc, derived>>

Mkdir ==
    /\ Editable
    /\ Cardinality(DOMAIN fs) <= MaxEntries
    /\ \E d \in Dirs(fs), n \in DirNames :
          /\ Append(d, n) \notin DOMAIN fs
          /\ fs' = fs @@ (Append(d, n) :> DirEntry)
    /\ UNCHANGED <<index, pc, queue, titles, written, scanned, walked, failed,
                   clock, changed, doc, derived>>

WriteFile ==
    /\ Editable
    /\ Cardinality(DOMAIN fs) <= MaxEntries
    /\ \E d \in Dirs(fs), n \in FileNames :
          /\ Append(d, n) \notin DOMAIN fs
          /\ \E text \in Texts(n) : fs' = fs @@ (Append(d, n) :> RawFile(text))
    /\ UNCHANGED <<index, pc, queue, titles, written, scanned, walked, failed,
                   clock, changed, doc, derived>>

Setup == MkPosts \/ Mkdir \/ WriteFile

-----------------------------------------------------------------------------
(* build_site.py: the Page Renderer.                                       *)

EXCLUDE_DIRS == {N_git, N_github, N_tools, N_assets, N_pycache}

\* part.startswith(".")
Hidden(part) == StartsWith(part, <<".">>)

\* Skipped without its second test
SkippedHiddenOnly(md_path) == \E i \in 1..Len(md_path) : Hidden(md_path[i])

\* the two `continue` tests of build_posts_html's loop
Skipped(md_path) ==
    \/ \E i \in 1..Len(md_path) : Hidden(md_path[i])
    \/ \E i \in 1..Len(md_path) : md_path[i] \in EXCLUDE_DIRS

\* POSTS_DIR.rglob("*.md"): every entry below POSTS_DIR, at any depth, whose
\* name matches; directories are entries too
RGlobMd(f) == {p \in DOMAIN f : Len(p) > 1 /\ EndsWith(Name(p), MD_EXT)}

\* the directories rglob lists to find them: POSTS_DIR and all below it
RGlobScans(f) == Dirs(f)

\* the fragment markdown.markdown returns, a function of the text alone
markdown(md_text) == <<"<", "m", "d", ">">> \o md_text

\* md_to_html's html_doc and what becomes of it in the destination file
Page(title, md_path, md_text, now) ==
    [kind |-> "file", fmt |-> "html", title |-> esc(title),
     hint |-> AsPosix(md_path), body |-> markdown(md_text), stamp |-> now]

\* md_path.read_text raises (the entry is a directory) or
\* html_path.write_text raises (the destination is a directory)
Raises(f, md_path) ==
    \/ f[md_path].kind = "dir"
    \/ IsDir(f, WithSuffixHtml(md_path))

Put(f, p, e) == [q \in DOMAIN f \cup {p} |-> IF q = p THEN e ELSE f[q]]

\* main() calls build_posts_html: the exists test, the discovery and the sort
StartRun ==
    /\ pc \in {"idle", "done", "aborted"}
    /\ pc' = "render"
    /\ titles' = NoFiles
    /\ queue' = IF PostsExists(fs) THEN SortedPaths(RGlobMd(fs)) ELSE <<>>
    /\ scanned' = IF PostsExists(fs) THEN RGlobScans(fs) ELSE {}
    /\ written' = {}
    /\ walked' = {}
    /\ failed' = <<>>
    /\ UNCHANGED <<fs, index, clock, changed, doc, derived>>

\* one turn of the loop that ends in `continue`
RenderSkip ==
    /\ pc = "render"
    /\ queue # <<>>
    /\ Skipped(Head(queue))
    /\ queue' = Tail(queue)
    /\ UNCHANGED <<fs, index, pc, titles, written, scanned, walked, failed,
                   clock, changed, doc, derived>>

\* RenderFail with the exception swallowed: skip and continue
RenderFailSkips ==
    /\ pc = "render"
    /\ queue # <<>>
    /\ ~Skipped(Head(queue))
    /\ Raises(fs, Head(queue))
    /\ queue' = Tail(queue)
    /\ UNCHANGED <<fs, index, pc, titles, written, scanned, walked, failed,
                   clock, changed, doc, derived>>

\* one turn of the loop in which md_to_html or write_text raises: the
\* exception leaves build_posts_html and main
RenderFail ==
    /\ pc = "render"
    /\ queue # <<>>
    /\ ~Skipped(Head(queue))
    /\ Raises(fs, Head(queue))
    /\ pc' = "aborted"
    /\ failed' = Head(queue)
    /\ UNCHANGED <<fs, index, queue, titles, written, scanned, walked,
                   clock, changed, doc, derived>>

\* one turn of the loop that renders md_path and records its title
RenderWrite ==
    /\ pc = "render"
    /\ queue # <<>>
    /\ ~Skipped(Head(queue))
    /\ ~Raises(fs, Head(queue))
    /\ LET md_path == Head(queue)
           md_text == fs[md_path].body
           title == read_title_from_md(md_text, Stem(Name(md_path)))
           html_path == WithSuffixHtml(md_path)
       IN  /\ fs' = Put(fs, html_path, Page(title, md_path, md_text, clock))
           /\ titles' = Put(titles, md_path, title)
           /\ written' = written \cup {html_path}
    /\ queue' = Tail(queue)
    /\ UNCHANGED <<index, pc, scanned, walked, failed,
                   clock, changed, doc, derived>>

\* the clock advances between two runs of the generator
Tick ==
    /\ pc \in {"done", "aborted"}
    /\ clock < MaxClock
    /\ clock' = clock + 1
    /\ UNCHANGED <<fs, index, pc, queue, titles, written, scanned, walked,
                   failed, changed, doc, derived>>

-----------------------------------------------------------------------------
(* build_site.py: the Index Builder.                                       *)

Line(tag, indent, text, href, label, note, src) ==
    [tag |-> tag, indent |-> indent, text |-> text, href |-> href,
     label |-> label, note |-> note, src |-> src]

\* the three lines that open a directory's section, and the two that close it
OpenLines(dirpath, depth, text) ==
    << Line("<li><details open>", 2 * depth, <<>>, <<>>, <<>>, <<>>, dirpath),
       Line("<summary>", 2 * depth, text, <<>>, <<>>, <<>>, dirpath),
       Line("<ul>", 2 * depth, <<>>, <<>>, <<>>, <<>>, dirpath) >>

CloseLines(dirpath, depth) ==
    << Line("</ul>", 2 * depth, <<>>, <<>>, <<>>, <<>>, dirpath),
       Line("</details></li>", 2 * depth, <<>>, <<>>, <<>>, <<>>, dirpath) >>

\* KeepDir without the EXCLUDE_DIRS test, KeepFile without the hidden test
KeepDirNotHidden(d) == ~Hidden(d)

KeepFileAnyMd(f) == EndsWith(f, MD_EXT)

\* the filter on dirnames and the filter on filenames
KeepDir(d) == d \notin EXCLUDE_DIRS /\ ~Hidden(d)

KeepFile(f) == EndsWith(f, MD_EXT) /\ ~Hidden(f)

\* Label without the lookup
LabelStem(t, md_path) == Stem(Name(md_path))

\* titles.get(md_path, md_path.stem)
Label(t, md_path) ==
    IF md_path \in DOMAIN t THEN t[md_path] ELSE Stem(Name(md_path))

\* the line of one file
FileLine(t, dirpath, depth, f) ==
    LET md_path == Append(dirpath, f)
        html_path == WithSuffixHtml(md_path)
    IN  Line("<li><a>", 2 * depth + 2, <<>>, esc(AsPosix(html_path)),
             esc(Label(t, md_path)), esc(f), md_path)

RECURSIVE FileLines(_, _, _, _)
FileLines(t, dirpath, depth, names) ==
    IF names = <<>> THEN <<>>
    ELSE <<FileLine(t, dirpath, depth, Head(names))>>
            \o FileLines(t, dirpath, depth, Tail(names))

\* os.scandir's answers: the subdirectories of dirpath in the order `ord`
\* lists them (`ord` orders the directories the walk gets to; the others are
\* pruned from dirnames wherever scandir puts them), and the names of the
\* entries that are not directories
ScanDirs(f, ord, dirpath) ==
    SelectSeq(ord, LAMBDA d : d \in Children(f, dirpath) /\ f[d].kind = "dir")

ScanFiles(f, dirpath) == {Name(p) : p \in {q \in Children(f, dirpath) : f[q].kind = "file"}}

\* the lines one turn of the os.walk loop appends for dirpath
TurnLines(f, t, dirpath) ==
    LET depth == Len(dirpath) - Len(POSTS_DIR)
        filenames == {n \in ScanFiles(f, dirpath) : KeepFile(n)}
        files == FileLines(t, dirpath, depth, SortedNames(filenames))
    IN  IF dirpath # POSTS_DIR
        THEN OpenLines(dirpath, depth, esc(Name(dirpath) \o <<"/">>))
                \o files \o CloseLines(dirpath, depth)
        ELSE files

\* os.walk(POSTS_DIR), top-down: the turn for dirpath, then the walk of each
\* directory the turn left in dirnames
RECURSIVE Walk(_, _, _, _)
RECURSIVE WalkEach(_, _, _, _)
Walk(f, ord, t, dirpath) ==
    LET dirnames == SelectSeq(ScanDirs(f, ord, dirpath), LAMBDA d : KeepDir(Name(d)))
    IN  TurnLines(f, t, dirpath) \o WalkEach(f, ord, t, dirnames)

WalkEach(f, ord, t, ds) ==
    IF ds = <<>> THEN <<>>
    ELSE Walk(f, ord, t, Head(ds)) \o WalkEach(f, ord, t, Tail(ds))

\* the orders in which os.scandir may list the directories D: any order
ScanOrders(D) ==
    {s \in [1..Cardinality(D) -> D] :
        \A i, j \in 1..Cardinality(D) : i # j => s[i] # s[j]}

\* the directories os.walk yields: those with no pruned name on the way down
WalkYields(f) ==
    {d \in Dirs(f) : \A i \in (Len(POSTS_DIR) + 1)..Len(d) : KeepDir(d[i])}

\* main() calls build_index(titles), which writes OUT_INDEX
BuildIndex ==
    /\ pc = "render"
    /\ queue = <<>>
    /\ pc' = "done"
    /\ IF ~PostsExists(fs)
       THEN /\ index' = [exists |-> TRUE, notfound |-> TRUE, lines |-> <<>>,
                         by |-> "build_site"]
            /\ UNCHANGED <<scanned, walked>>
       ELSE /\ \E ord \in ScanOrders(WalkYields(fs) \ {POSTS_DIR}) :
                  index' = [exists |-> TRUE, notfound |-> FALSE,
                            lines |-> Walk(fs, ord, titles, POSTS_DIR),
                            by |-> "build_site"]
            /\ scanned' = scanned \cup Dirs(fs)
            /\ walked' = WalkYields(fs)
    /\ UNCHANGED <<fs, queue, titles, written, failed, clock,
                   changed, doc, derived>>

Next == MkPosts \/ Mkdir \/ WriteFile \/ StartRun \/ RenderSkip \/ RenderFail
           \/ RenderWrite \/ BuildIndex \/ Tick

Spec == Init /\ [][Next]_vars

-----------------------------------------------------------------------------
(* An edit of the tree while main() runs: a note saved after the last page *)
(* was rendered and before build_index walks the tree.  SpecEdit follows   *)
(* the generator up to the end of its first completed run.                 *)

TouchDuringRun ==
    /\ pc = "render"
    /\ queue = <<>>
    /\ ~changed
    /\ changed' = TRUE
    /\ \E d \in Dirs(fs) :
          /\ Append(d, N_m_md) \notin DOMAIN fs
          /\ \E text \in Texts(N_m_md) :
                fs' = fs @@ (Append(d, N_m_md) :> RawFile(text))
    /\ UNCHANGED <<index, pc, queue, titles, written, scanned, walked, failed,
                   clock, doc, derived>>

NextEdit ==
    \/ ~index.exists /\ MkPosts
    \/ ~index.exists /\ Mkdir
    \/ ~index.exists /\ WriteFile
    \/ ~index.exists /\ StartRun
    \/ ~index.exists /\ RenderSkip
    \/ ~index.exists /\ RenderFail
    \/ ~index.exists /\ RenderWrite
    \/ ~index.exists /\ BuildIndex
    \/ ~index.exists /\ Tick
    \/ TouchDuringRun

SpecEdit == Init /\ [][NextEdit]_vars

-----------------------------------------------------------------------------
(* gen_index.py: the standalone index builder of the split-script variant. *)

GEN_EXCLUDE_DIRS == {N_git, N_github, N_tools, N_assets}

EXTS == {MD_EXT, HTML_EXT}

GenKeepDir(d) == d \notin GEN_EXCLUDE_DIRS /\ ~Hidden(d)

GenKeepFile(f) == Suffix(f) \in EXTS /\ ~Hidden(f)

\* safe(s) is html.escape(s, quote=True)
safe(s) == esc(s)

GenFileLine(dirpath, depth, f) ==
    LET p == Append(dirpath, f)
    IN  Line("<li><a>", 2 * depth + 2, <<>>, safe(AsPosix(p)), safe(f), <<>>, p)

RECURSIVE GenFileLines(_, _, _)
GenFileLines(dirpath, depth, names) ==
    IF names = <<>> THEN <<>>
    ELSE <<GenFileLine(dirpath, depth, Head(names))>>
            \o GenFileLines(dirpath, depth, Tail(names))

GenTurnLines(f, dirpath) ==
    LET depth == Len(dirpath) - Len(POSTS_DIR)
        filenames == {n \in ScanFiles(f, dirpath) : GenKeepFile(n)}
        files == GenFileLines(dirpath, depth, SortedNames(filenames))
    IN  IF dirpath # POSTS_DIR
        THEN OpenLines(dirpath, depth, safe(Name(dirpath) \o <<"/">>))
                \o files \o CloseLines(dirpath, depth)
        ELSE files

RECURSIVE GenWalk(_, _, _)
RECURSIVE GenWalkEach(_, _, _)
GenWalk(f, ord, dirpath) ==
    LET dirnames == SelectSeq(ScanDirs(f, ord, dirpath), LAMBDA d : GenKeepDir(Name(d)))
    IN  GenTurnLines(f, dirpath) \o GenWalkEach(f, ord, dirnames)

GenWalkEach(f, ord, ds) ==
    IF ds = <<>> THEN <<>>
    ELSE GenWalk(f, ord, Head(ds)) \o GenWalkEach(f, ord, Tail(ds))

GenWalkYields(f) ==
    {d \in Dirs(f) : \A i \in (Len(POSTS_DIR) + 1)..Len(d) : GenKeepDir(d[i])}

\* gen_index.main(): build_tree(), then OUT.write_text; a run of its own,
\* started when build_site's main() is not running
GenIndexMain ==
    /\ pc \in {"idle", "done", "aborted"}
    /\ IF ~PostsExists(fs)
       THEN /\ index' = [exists |-> TRUE, notfound |-> TRUE, lines |-> <<>>,
                         by |-> "gen_index"]
            /\ scanned' = {}
            /\ walked' = {}
       ELSE /\ \E ord \in ScanOrders(GenWalkYields(fs) \ {POSTS_DIR}) :
                  index' = [exists |-> TRUE, notfound |-> FALSE,
                            lines |-> GenWalk(fs, ord, POSTS_DIR),
                            by |-> "gen_index"]
            /\ scanned' = GenWalkYields(fs)
            /\ walked' = GenWalkYields(fs)
    /\ UNCHANGED <<fs, pc, queue, titles, written, failed, clock,
                   changed, doc, derived>>

NextSplit == Next \/ GenIndexMain

SpecSplit == Init /\ [][NextSplit]_vars

-----------------------------------------------------------------------------
(* read_title_from_md on its own: every text of at most MaxTextLen         *)
(* characters over TitleChars.                                             *)

TitleChars == {"#", " ", "a", "\n"}

TitleTexts == UNION {[1..n -> TitleChars] : n \in 0..MaxTextLen}

InitTitle == InitRest /\ doc \in [text : TitleTexts, stem : {<<"n">>}]

ReadTitle ==
    /\ ~derived.done
    /\ derived' = [done |-> TRUE, title |-> read_title_from_md(doc.text, doc.stem)]
    /\ UNCHANGED <<fs, index, pc, queue, titles, written, scanned, walked, failed,
                   clock, changed, doc>>

NextTitle == ReadTitle

SpecTitle == InitTitle /\ [][NextTitle]_vars

-----------------------------------------------------------------------------
(* Vocabulary of the properties.                                           *)

\* the positions of the file entries of the index
Links == {i \in 1..Len(index.lines) : index.lines[i].tag = "<li><a>"}

\* the value of href that names path P
HrefOf(P) == esc(AsPosix(P))

\* the links of the index whose target is P
LinksTo(P) == {i \in Links : index.lines[i].href = HrefOf(P)}

\* a Markdown document's name: it ends in ".md"
IsMdName(n) == Len(n) >= 3 /\ SubSeq(n, Len(n) - 2, Len(n)) = <<".", "m", "d">>

\* the destination path of document D: the extension .md replaced by .html
DestOf(D) ==
    Append(SubSeq(D, 1, Len(D) - 1),
           SubSeq(D[Len(D)], 1, Len(D[Len(D)]) - 3) \o <<".", "h", "t", "m", "l">>)

\* the file name of document D without its extension
StemOf(D) == SubSeq(D[Len(D)], 1, Len(D[Len(D)]) - 3)

ExclusionSet == {N_git, N_github, N_tools, N_assets, N_pycache}

\* segment i of P is in the exclusion set or begins with "."
ExcludedSegment(P, i) == P[i] \in ExclusionSet \/ (P[i] # <<>> /\ P[i][1] = ".")

HasExcludedSegment(P) == \E i \in 1..Len(P) : ExcludedSegment(P, i)

\* P lies below an excluded directory
BelowExcluded(P) == \E i \in 1..(Len(P) - 1) : ExcludedSegment(P, i)

\* the entries the Renderer has to render: the documents with no excluded segment
Eligible == {D \in DOMAIN fs : Len(D) > 1 /\ IsMdName(D[Len(D)]) /\ ~HasExcludedSegment(D)}

\* an index written by build_site's main() in the run that has just completed
IndexBuilt == pc = "done" /\ index.exists /\ index.by = "build_site"

-----------------------------------------------------------------------------
(* C1: index completeness.  When build_site.main has completed, the index  *)
(* holds exactly one link to the destination path of every document that   *)
(* build_posts_html rendered in that run.                                  *)

C1_IndexComplete ==
    IndexBuilt =>
        \A D \in DOMAIN titles :
            /\ DestOf(D) \in written
            /\ Cardinality(LinksTo(DestOf(D))) = 1

\* two documents rendered and listed, one of them in a subdirectory
C1_Witness ==
    /\ IndexBuilt
    /\ \E D, E \in DOMAIN titles : Len(D) = 2 /\ Len(E) = 3

-----------------------------------------------------------------------------
(* C2: no broken links.  index.html changes only in the step of main that  *)
(* follows the end of rendering, a step that renders nothing; and once it  *)
(* is written, every link target in it is a page the Renderer wrote in the *)
(* same run.                                                               *)

C2_LinksWritten ==
    IndexBuilt =>
        \A i \in Links : \E H \in written :
            /\ index.lines[i].href = HrefOf(H)
            /\ H \in DOMAIN fs
            /\ fs[H].kind = "file"
            /\ fs[H].fmt = "html"

C2_NoBrokenLinks ==
    /\ []C2_LinksWritten
    /\ [][index' # index =>
            /\ pc = "render" /\ queue = <<>> /\ pc' = "done"
            /\ written' = written /\ fs' = fs /\ titles' = titles]_vars

\* an index with two links, written after two pages
C2_Witness ==
    /\ IndexBuilt
    /\ Cardinality(Links) >= 2
    /\ Cardinality(written) >= 2

-----------------------------------------------------------------------------
(* C3: exclusion.  As claimed: a path with an excluded segment is not      *)
(* rendered and not listed, and no directory below an excluded directory   *)
(* is visited by the run.                                                  *)

\* P is neither rendered (no page, no Title Map entry) nor listed
C3_NotRenderedNotListed(P) ==
    /\ P \notin DOMAIN titles
    /\ P \notin written
    /\ IsMdName(P[Len(P)]) => DestOf(P) \notin written
    /\ index.by = "build_site" =>
          /\ LinksTo(P) = {}
          /\ IsMdName(P[Len(P)]) => LinksTo(DestOf(P)) = {}
          /\ \A i \in 1..Len(index.lines) : index.lines[i].src # P

-----------------------------------------------------------------------------
(* C4: title extraction.  As claimed: the title is the trimmed text after  *)
(* the marker of the first line that is a single "#", whitespace and text, *)
(* and the filename stem when the document has no such line.               *)

\* the position of the first character of line l that is not whitespace
FirstInk(l) ==
    LET S == {i \in 1..Len(l) : ~IsSpace(l[i])}
    IN  IF S = {} THEN 0 ELSE CHOOSE i \in S : \A j \in S : i <= j

\* what follows the marker, for a line whose first visible character is "#"
AfterMarker(l) == SubSeq(l, FirstInk(l) + 1, Len(l))

\* a "#", then whitespace, then at least one more character
MarkerLine(l) ==
    /\ FirstInk(l) > 0
    /\ l[FirstInk(l)] = "#"
    /\ Len(AfterMarker(l)) >= 2
    /\ IsSpace(AfterMarker(l)[1])

\* a "#", then whitespace, then text: something that is not whitespace
HeadingLine(l) == MarkerLine(l) /\ Strip(AfterMarker(l)) # <<>>

DocLines == SplitLines(doc.text)

FirstOf(S) == CHOOSE i \in S : \A j \in S : i <= j

C4_Original ==
    derived.done =>
        LET H == {i \in 1..Len(DocLines) : HeadingLine(DocLines[i])}
        IN  derived.title = IF H = {} THEN doc.stem
                            ELSE Strip(AfterMarker(DocLines[FirstOf(H)]))

\* C4 as amended: the line that decides is the first one that, after any
\* leading whitespace, is a "#", one whitespace character and at least one
\* more character of any kind; the title is the trimmed text after the "#"
\* (empty when that text is all whitespace), and the stem when there is no
\* such line.
C4_TitleExtraction ==
    derived.done =>
        LET H == {i \in 1..Len(DocLines) : MarkerLine(DocLines[i])}
        IN  derived.title = IF H = {} THEN doc.stem
                            ELSE Strip(AfterMarker(DocLines[FirstOf(H)]))

\* a document with two heading lines of different text, after a line that
\* is no heading
C4_Witness ==
    /\ derived.done
    /\ \E i, j \in 1..Len(DocLines) :
          /\ i < j
          /\ HeadingLine(DocLines[i])
          /\ HeadingLine(DocLines[j])
          /\ Strip(AfterMarker(DocLines[i])) # Strip(AfterMarker(DocLines[j]))
          /\ derived.title = Strip(AfterMarker(DocLines[i]))

-----------------------------------------------------------------------------
(* C5: title propagation.  The label of every file entry of the index is   *)
(* the Title Map entry of its document when there is one and the filename  *)
(* stem otherwise; when the tree did not change during the run, every      *)
(* listed document has an entry and the label is the title shown in its    *)
(* rendered page.                                                          *)

Documents == {D \in DOMAIN fs : Len(D) > 1 /\ IsMdName(D[Len(D)])}

C5_TitlePropagation ==
    IndexBuilt =>
        /\ \A i \in Links : \E D \in Documents : i \in LinksTo(DestOf(D))
        /\ \A D \in Documents : \A i \in LinksTo(DestOf(D)) :
              /\ index.lines[i].label =
                    esc(IF D \in DOMAIN titles THEN titles[D] ELSE StemOf(D))
              /\ ~changed =>
                    /\ D \in DOMAIN titles
                    /\ DestOf(D) \in written
                    /\ index.lines[i].label = fs[DestOf(D)].title

\* one listed document labelled with its heading, another one, saved during
\* the run, labelled with its stem
C5_Witness ==
    /\ IndexBuilt
    /\ \E D, E \in Documents :
          /\ LinksTo(DestOf(D)) # {}
          /\ D \in DOMAIN titles
          /\ titles[D] # StemOf(D)
          /\ LinksTo(DestOf(E)) # {}
          /\ E \notin DOMAIN titles

-----------------------------------------------------------------------------
(* C6: tree nesting.  In the index of build_index the section of every     *)
(* directory below a non-root directory, and every file entry of a         *)
(* non-root directory, lies between the lines that open and close that     *)
(* directory's section.                                                    *)

OpenAt(d) ==
    CHOOSE i \in 1..Len(index.lines) :
        index.lines[i].tag = "<li><details open>" /\ index.lines[i].src = d

CloseAt(d) ==
    CHOOSE i \in 1..Len(index.lines) :
        index.lines[i].tag = "</details></li>" /\ index.lines[i].src = d

C6_TreeNesting ==
    (IndexBuilt /\ ~index.notfound) =>
        /\ \A e \in walked : Len(e) > 2 =>
              /\ OpenAt(Parent(e)) < OpenAt(e)
              /\ CloseAt(e) < CloseAt(Parent(e))
        /\ \A i \in Links : Len(index.lines[i].src) > 2 =>
              /\ OpenAt(Parent(index.lines[i].src)) < i
              /\ i < CloseAt(Parent(index.lines[i].src))

-----------------------------------------------------------------------------
(* C7: idempotence.  A second run of main over the unchanged tree leaves   *)
(* the same output files with the same content, the timestamp of each page *)
(* aside; the index, with the order of its sections and entries, is the    *)
(* same.                                                                   *)

NoStamp(e) == [e EXCEPT !.stamp = 0]

\* a run of main has completed before, over this tree
RunBefore == index.exists /\ index.by = "build_site"

\* no step of a later run adds a file or changes a page, its stamp aside
C7_SamePages ==
    [][RunBefore =>
          /\ DOMAIN fs' = DOMAIN fs
          /\ \A p \in DOMAIN fs : NoStamp(fs'[p]) = NoStamp(fs[p])]_vars

C7_Idempotent ==
    /\ C7_SamePages
    /\ [][RunBefore => index' = index]_vars

-----------------------------------------------------------------------------
(* C8: missing or empty content root.  Without a content root the run      *)
(* completes, renders nothing, leaves the Title Map empty and writes the   *)
(* index with the "not found" placeholder; with an empty content root the  *)
(* run completes and writes the index with an empty tree.                  *)

RunOver == pc \in {"done", "aborted"}

C8_MissingOrEmptyRoot ==
    /\ (RunOver /\ ~(POSTS_DIR \in DOMAIN fs)) =>
          /\ pc = "done"
          /\ titles = NoFiles
          /\ written = {}
          /\ index.exists
          /\ index.notfound
    /\ (RunOver /\ DOMAIN fs = {POSTS_DIR}) =>
          /\ pc = "done"
          /\ titles = NoFiles
          /\ written = {}
          /\ index.exists
          /\ ~index.notfound
          /\ index.lines = <<>>

\* a completed run without a content root
C8_Witness == pc = "done" /\ ~(POSTS_DIR \in DOMAIN fs) /\ index.notfound

-----------------------------------------------------------------------------
(* C9: abort on the first fatal error.  A run completes only if no         *)
(* eligible document is unreadable or has an unwritable destination; a run *)
(* that aborts stops at the first such document in lexicographic order,    *)
(* with the pages of the earlier eligible documents written, no later one  *)
(* rendered, and index.html as it was when the run began.                  *)

Fatal(D) ==
    \/ fs[D].kind = "dir"
    \/ DestOf(D) \in DOMAIN fs /\ fs[DestOf(D)].kind = "dir"

C9_Stopped ==
    /\ pc = "done" => \A D \in Eligible : ~Fatal(D)
    /\ pc = "aborted" =>
          /\ failed \in Eligible
          /\ Fatal(failed)
          /\ \A D \in Eligible :
                IF PathLess(D, failed)
                THEN D \in DOMAIN titles /\ DestOf(D) \in written
                                         /\ fs[DestOf(D)].fmt = "html"
                ELSE D \notin DOMAIN titles /\ DestOf(D) \notin written

\* index.html changes only in the step that completes a run, so a run that
\* aborts has not written it
C9_AbortOnFirstError ==
    /\ []C9_Stopped
    /\ [][index' # index => (pc = "render" /\ pc' = "done")]_vars
    /\ [][pc' = "aborted" => index' = index]_vars

\* an aborted run with a page written before the failure and a document left
\* unrendered after it
C9_Witness ==
    /\ pc = "aborted"
    /\ written # {}
    /\ \E D \in Eligible : PathLess(failed, D)

-----------------------------------------------------------------------------
(* C10: two-pass consistency.  The index gen_index writes lists exactly    *)
(* the documents the Renderer treats as eligible, and its walk descends    *)
(* into exactly the directories that have no excluded segment.             *)

C10_SameRules ==
    (index.exists /\ index.by = "gen_index" /\ ~index.notfound) =>
        /\ {P \in DOMAIN fs : LinksTo(P) # {}} = {D \in Eligible : fs[D].kind = "file"}
        /\ walked = {d \in Dirs(fs) : ~HasExcludedSegment(d)}

====
